---- MODULE Spec2Model ----
(***************************************************************************)
(* Blocking client of reqwest (src/blocking/client.rs): the bridge between *)
(* caller threads that block in execute_request and the runtime thread     *)
(* that runs one forward task per request.                                 *)
(*                                                                         *)
(* Rust values are written as follows.  Option<T>: None is <<>>, Some(x)   *)
(* is <<x>>.  crate::Result<T>: <<"Ok", v>> or <<"Err", e>>.  An error is  *)
(* a record [kind, source, url] with url an Option; the URL of a request   *)
(* is the number of its call.  Durations are in milliseconds.              *)
(***************************************************************************)
EXTENDS Integers, Sequences, FiniteSets, TLC

\* Number of execute calls issued over the life of one client.
MaxReqs == 2
\* Number of Client values (the first one and its clones) alive at one time.
MaxClients == 2

Reqs == 1..MaxReqs

None == <<>>
Some(x) == <<x>>

\* impl Default for Timeout: Timeout(Some(Duration::from_secs(30)))
DefaultTimeoutMs == 30000
Timeout_default == Some(DefaultTimeoutMs)

\* Values ClientBuilder::timeout may have left in builder.timeout: the
\* default, a disabled default, and a short client-wide timeout.
ClientTimeouts == {Timeout_default, None, Some(50)}

\* Values of req.timeout(): no override, or one that is shorter than the
\* default and longer than the short client-wide timeout.
ReqTimeouts == {None, Some(100)}

\* What the engine's future resolves to: crate::Result<async_impl::Response>.
\* The engine's error for a request is a request error with its own cause.
EngineError == [kind |-> "Request", source |-> "engine", url |-> None]
EngineResults == {<<"Ok", "response">>, <<"Err", EngineError>>}

\* What body.send() fails with.
BodyError == [kind |-> "Body", source |-> "io", url |-> None]

\* crate::error::request(e)
error_request(e) == [kind |-> "Request", source |-> e, url |-> None]

\* Error::with_url
with_url(err, url) == [err EXCEPT !.url = Some(url)]

\* What a one-shot receiver resolves to when the sender was dropped unsent.
Canceled == <<"Canceled">>

VARIABLES
    npc,            \* ClientHandle::new on the constructing thread
    clientTimeout,  \* builder.timeout, then ClientHandle.timeout
    spawnSig,       \* the startup one-shot (spawn_tx -> spawn_rx): None,
                    \* Some(value sent), or Canceled when spawn_tx was
                    \* dropped with nothing sent
    hpc,            \* the runtime thread
    tx,             \* the mpsc send-half exists (a local of new, then
                    \* InnerClientHandle.tx)
    thread,         \* InnerClientHandle.thread is Some
    clients,        \* Client values alive, each holding the Arc
    responses,      \* Responses alive, each holding KeepCoreThreadAlive
    dpc,            \* Drop for InnerClientHandle
    queue,          \* the unbounded mpsc channel: requests sent, not received
    cpc,            \* per call: where execute_request is
    timeout,        \* per call: the local `timeout` of execute_request
    sinkVal,        \* per call: the value held by the response one-shot
    rxClosed,       \* per call: the one-shot's receiver has been dropped
    eng,            \* per call: the engine future req_fut
    task,           \* per call: the forward task
    outcome,        \* per call: what execute_request returned
    writes,         \* per call: successful tx.send(res) on the one-shot
    branches        \* per call: branches the forward task has taken

vars == <<npc, clientTimeout, spawnSig, hpc, tx, thread, clients, responses,
          dpc, queue, cpc, timeout, sinkVal, rxClosed, eng, task, outcome,
          writes, branches>>

newVars == <<npc, clientTimeout, spawnSig>>
handleVars == <<tx, thread, clients, responses, dpc>>
callVars == <<cpc, timeout, outcome>>
sinkVars == <<sinkVal, rxClosed, writes>>
taskVars == <<eng, task, branches>>

Init ==
    /\ npc = "new"
    /\ clientTimeout \in ClientTimeouts
    /\ spawnSig = None
    /\ hpc = "unspawned"
    /\ tx = TRUE
    /\ thread = FALSE
    /\ clients = 0
    /\ responses = 0
    /\ dpc = "none"
    /\ queue = <<>>
    /\ cpc = [r \in Reqs |-> "idle"]
    /\ timeout = [r \in Reqs |-> None]
    /\ sinkVal = [r \in Reqs |-> None]
    /\ rxClosed = [r \in Reqs |-> FALSE]
    /\ eng = [r \in Reqs |-> "none"]
    /\ task = [r \in Reqs |-> "none"]
    /\ outcome = [r \in Reqs |-> None]
    /\ writes = [r \in Reqs |-> 0]
    /\ branches = [r \in Reqs |-> <<>>]

----------------------------------------------------------------------------
\* ClientHandle::new.  The initial state is the one after the two channels
\* are created.

\* thread::Builder::spawn(..).map_err(crate::error::builder)?
new_spawn(ok) ==
    /\ npc = "new"
    /\ IF ok
         THEN /\ npc' = "await"
              /\ hpc' = "rt_build"
              /\ tx' = tx
         ELSE /\ npc' = "err"
              /\ hpc' = hpc
              /\ tx' = FALSE
    /\ UNCHANGED <<clientTimeout, spawnSig, thread, clients, responses, dpc,
                   queue, callVars, sinkVars, taskVars>>

\* runtime::Builder::new_current_thread().enable_all().build()
thread_rt_build(ok) ==
    /\ hpc = "rt_build"
    /\ IF ok
         THEN /\ hpc' = "client_build"
              /\ spawnSig' = spawnSig
         ELSE /\ spawnSig' = Some("Err")
              /\ hpc' = "finished"
    /\ UNCHANGED <<npc, clientTimeout, handleVars, queue, callVars, sinkVars,
                   taskVars>>

\* Mutant: Ok(()) is sent before the result of builder.build() is looked at.
thread_client_build_ok_first(ok) ==
    /\ hpc = "client_build"
    /\ spawnSig' = Some("Ok")
    /\ hpc' = IF ok THEN "loop" ELSE "finished"
    /\ UNCHANGED <<npc, clientTimeout, handleVars, queue, callVars, sinkVars,
                   taskVars>>

\* builder.build(), then spawn_tx.send(Ok(())) and the first rx.recv()
thread_client_build(ok) ==
    /\ hpc = "client_build"
    /\ IF ok
         THEN /\ spawnSig' = Some("Ok")
              /\ hpc' = "loop"
         ELSE /\ spawnSig' = Some("Err")
              /\ hpc' = "finished"
    /\ UNCHANGED <<npc, clientTimeout, handleVars, queue, callVars, sinkVars,
                   taskVars>>

\* Mutant: the value of the startup signal is not looked at.
new_await_ignores_err ==
    /\ npc = "await"
    /\ spawnSig # None
    /\ npc' = "ready"
    /\ tx' = tx
    /\ thread' = TRUE
    /\ clients' = 1
    /\ UNCHANGED <<clientTimeout, spawnSig, hpc, responses, dpc, queue,
                   callVars, sinkVars, taskVars>>

\* Mutant: the handle is built without the JoinHandle, thread: None.
new_await_no_join_handle ==
    /\ npc = "await"
    /\ spawnSig # None
    /\ IF spawnSig = Some("Ok")
         THEN /\ npc' = "ready"
              /\ tx' = tx
              /\ thread' = FALSE
              /\ clients' = 1
         ELSE /\ npc' = IF spawnSig = Canceled THEN "panic" ELSE "err"
              /\ tx' = FALSE
              /\ UNCHANGED <<thread, clients>>
    /\ UNCHANGED <<clientTimeout, spawnSig, hpc, responses, dpc, queue,
                   callVars, sinkVars, taskVars>>

\* Mutant: Err(_canceled) is turned into an error value.
new_await_canceled_as_err ==
    /\ npc = "await"
    /\ spawnSig # None
    /\ IF spawnSig = Some("Ok")
         THEN /\ npc' = "ready"
              /\ tx' = tx
              /\ thread' = TRUE
              /\ clients' = 1
         ELSE /\ npc' = "err"
              /\ tx' = FALSE
              /\ UNCHANGED <<thread, clients>>
    /\ UNCHANGED <<clientTimeout, spawnSig, hpc, responses, dpc, queue,
                   callVars, sinkVars, taskVars>>

\* match wait::timeout(spawn_rx, None), then Arc::new(InnerClientHandle {..}).
\* Err(_canceled) => event_loop_panicked(): new unwinds, its locals dropped.
new_await ==
    /\ npc = "await"
    /\ spawnSig # None
    /\ IF spawnSig = Some("Ok")
         THEN /\ npc' = "ready"
              /\ tx' = tx
              /\ thread' = TRUE
              /\ clients' = 1
         ELSE /\ npc' = IF spawnSig = Canceled THEN "panic" ELSE "err"
              /\ tx' = FALSE
              /\ UNCHANGED <<thread, clients>>
    /\ UNCHANGED <<clientTimeout, spawnSig, hpc, responses, dpc, queue,
                   callVars, sinkVars, taskVars>>

----------------------------------------------------------------------------
\* The Arc<InnerClientHandle>

\* Arc::strong_count(&inner)
strong_count == clients + responses

\* Calls inside execute_request(&self, ..): each borrows a Client.
InFlight == {r \in Reqs : cpc[r] \in {"body", "wait", "expired"}}

\* Mutant: the clone is built like a new client, with a thread started for it.
client_clone_spawns ==
    /\ npc = "ready"
    /\ clients >= 1
    /\ clients < MaxClients
    /\ clients' = clients + 1
    /\ hpc' = "rt_build"
    /\ UNCHANGED <<newVars, tx, thread, responses, dpc, queue, callVars,
                   sinkVars, taskVars>>

\* Client::clone: #[derive(Clone)] on ClientHandle clones the Arc.
client_clone ==
    /\ npc = "ready"
    /\ clients >= 1
    /\ clients < MaxClients
    /\ clients' = clients + 1
    /\ UNCHANGED <<newVars, hpc, tx, thread, responses, dpc, queue, callVars,
                   sinkVars, taskVars>>

\* Mutant: the send-half is left in place when the drop goes on to join.
drop_last_keep_tx ==
    /\ tx' = tx
    /\ dpc' = "closing"

\* Drop for InnerClientHandle, up to and including self.tx.take(); it runs
\* when the strong count reaches zero.
drop_last ==
    /\ tx' = FALSE
    /\ dpc' = "closing"

\* Mutant: a Client can go away under a call that is running on it.
client_drop_unborrowed ==
    /\ npc = "ready"
    /\ clients >= 1
    /\ clients' = clients - 1
    /\ IF strong_count = 1 THEN drop_last ELSE UNCHANGED <<tx, dpc>>
    /\ UNCHANGED <<newVars, hpc, thread, responses, queue, callVars,
                   sinkVars, taskVars>>

\* A Client goes out of scope.  A Client borrowed by a running call cannot.
client_drop ==
    /\ npc = "ready"
    /\ clients >= 1
    /\ InFlight # {} => clients >= 2
    /\ clients' = clients - 1
    /\ IF strong_count = 1 THEN drop_last ELSE UNCHANGED <<tx, dpc>>
    /\ UNCHANGED <<newVars, hpc, thread, responses, queue, callVars,
                   sinkVars, taskVars>>

\* Mutant: every drop of a KeepCoreThreadAlive runs the drop of the handle.
response_drop_always_closes ==
    /\ responses >= 1
    /\ responses' = responses - 1
    /\ drop_last
    /\ UNCHANGED <<newVars, hpc, thread, clients, queue, callVars,
                   sinkVars, taskVars>>

\* A Response goes out of scope, and its KeepCoreThreadAlive with it.
response_drop ==
    /\ responses >= 1
    /\ responses' = responses - 1
    /\ IF strong_count = 1 THEN drop_last ELSE UNCHANGED <<tx, dpc>>
    /\ UNCHANGED <<newVars, hpc, thread, clients, queue, callVars,
                   sinkVars, taskVars>>

\* Mutant: the Result of join is unwrapped, so that the drop goes on only
\* after a thread function that returned.
join_returns_unwrapped == hpc = "finished"

\* Mutant: the thread is detached instead of joined.
join_returns_detached == TRUE

\* JoinHandle::join returns once the thread function has returned or has
\* unwound; the Result is dropped by the closure of map.
join_returns == hpc \in {"finished", "panicked"}

\* Drop for InnerClientHandle: self.thread.take().map(|h| h.join())
drop_join ==
    /\ dpc = "closing"
    /\ join_returns
    /\ thread' = FALSE
    /\ dpc' = "joined"
    /\ UNCHANGED <<newVars, hpc, tx, clients, responses, queue, callVars,
                   sinkVars, taskVars>>

----------------------------------------------------------------------------
\* ClientHandle::execute_request

\* Mutant: the operands of `or` are swapped, the client default wins.
effective_timeout_swapped(reqTimeout, handleTimeout) ==
    IF handleTimeout # None THEN handleTimeout ELSE reqTimeout

\* Mutant: the built-in default is used instead of the client's setting.
effective_timeout_builtin(reqTimeout, handleTimeout) ==
    IF reqTimeout # None THEN reqTimeout ELSE Timeout_default

\* req.timeout().copied().or(self.timeout.0)
effective_timeout(reqTimeout, handleTimeout) ==
    IF reqTimeout # None THEN reqTimeout ELSE handleTimeout

\* Mutant: the engine's error is returned without with_url.
execute_result_no_url(result, url, to) ==
    IF result[1] = "Ok"
      THEN IF result[2][1] = "Err"
             THEN <<"Err", result[2][2]>>
             ELSE <<"Ok", [res |-> result[2][2], timeout |-> to,
                           keepalive |-> TRUE]>>
      ELSE IF result[2][1] = "TimedOut"
             THEN <<"Err", with_url(error_request("TimedOut"), url)>>
             ELSE <<"Err", with_url(result[2][2], url)>>

\* Mutant: the TimedOut arm is taken for the Inner arm and the timeout is
\* reported as the inner error's kind.
execute_result_timeout_as_inner(result, url, to) ==
    IF result[1] = "Ok"
      THEN IF result[2][1] = "Err"
             THEN <<"Err", with_url(result[2][2], url)>>
             ELSE <<"Ok", [res |-> result[2][2], timeout |-> to,
                           keepalive |-> TRUE]>>
      ELSE <<"Err", with_url([kind |-> "Body", source |-> result[2][2],
                              url |-> None], url)>>

\* Mutant: the Response is built with KeepCoreThreadAlive::empty().
execute_result_empty_keepalive(result, url, to) ==
    IF result[1] = "Ok"
      THEN IF result[2][1] = "Err"
             THEN <<"Err", with_url(result[2][2], url)>>
             ELSE <<"Ok", [res |-> result[2][2], timeout |-> to,
                           keepalive |-> FALSE]>>
      ELSE IF result[2][1] = "TimedOut"
             THEN <<"Err", with_url(error_request("TimedOut"), url)>>
             ELSE <<"Err", with_url(result[2][2], url)>>

\* Mutant: the TimedOut arm returns an error without the TimedOut cause.
execute_result_timeout_like_engine(result, url, to) ==
    IF result[1] = "Ok"
      THEN IF result[2][1] = "Err"
             THEN <<"Err", with_url(result[2][2], url)>>
             ELSE <<"Ok", [res |-> result[2][2], timeout |-> to,
                           keepalive |-> TRUE]>>
      ELSE IF result[2][1] = "TimedOut"
             THEN <<"Err", with_url(error_request("engine"), url)>>
             ELSE <<"Err", with_url(result[2][2], url)>>

\* Mutant: the Response is built with the client's default timeout.
execute_result_handle_timeout(result, url, to) ==
    IF result[1] = "Ok"
      THEN IF result[2][1] = "Err"
             THEN <<"Err", with_url(result[2][2], url)>>
             ELSE <<"Ok", [res |-> result[2][2], timeout |-> clientTimeout,
                           keepalive |-> TRUE]>>
      ELSE IF result[2][1] = "TimedOut"
             THEN <<"Err", with_url(error_request("TimedOut"), url)>>
             ELSE <<"Err", with_url(result[2][2], url)>>

\* The final match of execute_request on the result of wait::timeout.
\* keepalive: the Response holds KeepCoreThreadAlive(Some(self.inner.clone())).
execute_result(result, url, to) ==
    IF result[1] = "Ok"
      THEN IF result[2][1] = "Err"
             THEN <<"Err", with_url(result[2][2], url)>>
             ELSE <<"Ok", [res |-> result[2][2], timeout |-> to,
                           keepalive |-> TRUE]>>
      ELSE IF result[2][1] = "TimedOut"
             THEN <<"Err", with_url(error_request("TimedOut"), url)>>
             ELSE <<"Err", with_url(result[2][2], url)>>

\* The mpsc receiver is owned by the runtime thread's block_on future.
receiver_alive == hpc \in {"rt_build", "client_build", "loop"}

\* execute_request up to the call of wait::timeout: the one-shot is created,
\* the timeout resolved and (req, tx) sent.  Calls take the slots in order.
\* Mutant: the SendError is mapped to an error value and returned.
send_failed_returns_err(r) ==
    /\ cpc' = [cpc EXCEPT ![r] = "done"]
    /\ outcome' = [outcome EXCEPT ![r] =
                     Some(<<"Err", with_url(error_request("SendError"), r)>>)]
    /\ rxClosed' = [rxClosed EXCEPT ![r] = TRUE]

\* .send((req, tx)).expect("core thread panicked") on a SendError:
\* execute_request unwinds, the one-shot just created is dropped.
send_failed(r) ==
    /\ cpc' = [cpc EXCEPT ![r] = "panicked"]
    /\ outcome' = outcome
    /\ rxClosed' = [rxClosed EXCEPT ![r] = TRUE]

\* Mutant: the waited future awaits the one-shot at once, body or not.
waited_future_no_body(hasBody) == "wait"

\* if let Some(body) = body_taken: the waited future first runs
\* body.send().await?, then rx.await; without a body it is rx.await alone.
waited_future(hasBody) == IF hasBody THEN "body" ELSE "wait"

\* execute_request up to the call of wait::timeout: the one-shot is created,
\* the timeout resolved and (req, tx) sent.  Calls take the slots in order.
\* UnboundedSender::send fails exactly when the receiver is gone.
execute_request(r, reqTimeout, hasBody) ==
    /\ npc = "ready"
    /\ clients >= 1
    /\ cpc[r] = "idle"
    /\ \A q \in Reqs : q < r => cpc[q] # "idle"
    /\ tx
    /\ IF receiver_alive
         THEN /\ timeout' = [timeout EXCEPT ![r] = effective_timeout(reqTimeout, clientTimeout)]
              /\ queue' = Append(queue, r)
              /\ cpc' = [cpc EXCEPT ![r] = waited_future(hasBody)]
              /\ UNCHANGED <<outcome, rxClosed>>
         ELSE /\ send_failed(r)
              /\ UNCHANGED <<timeout, queue>>
    /\ UNCHANGED <<newVars, hpc, handleVars, sinkVal, writes, taskVars>>

\* Mutant: self.inner is cloned before the match, in every arm.
execute_return_always_clones(r, result) ==
    /\ outcome' = [outcome EXCEPT ![r] = Some(execute_result(result, r, timeout[r]))]
    /\ rxClosed' = [rxClosed EXCEPT ![r] = TRUE]
    /\ sinkVal' = [sinkVal EXCEPT ![r] = None]
    /\ timeout' = [timeout EXCEPT ![r] = None]
    /\ cpc' = [cpc EXCEPT ![r] = "done"]
    /\ responses' = responses + 1

\* execute_request returns: the future given to wait::timeout is gone, and
\* with it the one-shot receiver and any value still in the one-shot; the
\* local `timeout` lives on only in a Response.
execute_return(r, result) ==
    /\ outcome' = [outcome EXCEPT ![r] = Some(execute_result(result, r, timeout[r]))]
    /\ rxClosed' = [rxClosed EXCEPT ![r] = TRUE]
    /\ sinkVal' = [sinkVal EXCEPT ![r] = None]
    /\ timeout' = [timeout EXCEPT ![r] = None]
    /\ cpc' = [cpc EXCEPT ![r] = "done"]
    /\ responses' = IF /\ execute_result(result, r, timeout[r])[1] = "Ok"
                         /\ execute_result(result, r, timeout[r])[2].keepalive
                      THEN responses + 1 ELSE responses

\* Mutant: the ? after body.send().await is missing, the error is dropped
\* and the one-shot awaited.
body_send_error_dropped(r, ok) ==
    /\ cpc[r] = "body"
    /\ cpc' = [cpc EXCEPT ![r] = "wait"]
    /\ UNCHANGED <<outcome, rxClosed, responses, sinkVal, timeout>>
    /\ UNCHANGED <<newVars, hpc, tx, thread, clients, dpc, queue, writes,
                   taskVars>>

\* body.send().await? inside the waited future
body_send(r, ok) ==
    /\ cpc[r] = "body"
    /\ IF ok
         THEN /\ cpc' = [cpc EXCEPT ![r] = "wait"]
              /\ UNCHANGED <<outcome, rxClosed, responses, sinkVal, timeout>>
         ELSE execute_return(r, <<"Err", <<"Inner", BodyError>>>>)
    /\ UNCHANGED <<newVars, hpc, tx, thread, clients, dpc, queue, writes,
                   taskVars>>

\* The write-half of the one-shot of call r was dropped with nothing sent
\* while the read-half is open: rx.await resolves to Err(Canceled).
SinkCanceled(r) ==
    /\ ~rxClosed[r]
    /\ sinkVal[r] = None
    /\ task[r] \in {"abandoned", "discarded", "panicked", "lost"}

\* Mutant: Canceled is mapped to an error value that execute returns.
wait_canceled_returns_err(r) ==
    /\ cpc[r] = "wait"
    /\ SinkCanceled(r)
    /\ cpc' = [cpc EXCEPT ![r] = "done"]
    /\ outcome' = [outcome EXCEPT ![r] =
                     Some(<<"Err", with_url(error_request("Canceled"), r)>>)]
    /\ rxClosed' = [rxClosed EXCEPT ![r] = TRUE]
    /\ timeout' = [timeout EXCEPT ![r] = None]
    /\ UNCHANGED <<newVars, hpc, handleVars, queue, sinkVal, writes, taskVars>>

\* rx.await.map_err(|_canceled| event_loop_panicked()): the waited future
\* panics when polled, execute_request unwinds out of wait::timeout.
wait_canceled(r) ==
    /\ cpc[r] = "wait"
    /\ SinkCanceled(r)
    /\ cpc' = [cpc EXCEPT ![r] = "panicked"]
    /\ outcome' = outcome
    /\ rxClosed' = [rxClosed EXCEPT ![r] = TRUE]
    /\ timeout' = [timeout EXCEPT ![r] = None]
    /\ UNCHANGED <<newVars, hpc, handleVars, queue, sinkVal, writes, taskVars>>

\* wait::timeout: rx.await is ready before the deadline
wait_ready(r) ==
    /\ cpc[r] = "wait"
    /\ sinkVal[r] # None
    /\ execute_return(r, <<"Ok", sinkVal[r][1]>>)
    /\ UNCHANGED <<newVars, hpc, tx, thread, clients, dpc, queue, writes,
                   taskVars>>

\* wait::timeout: the deadline elapses before the waited future is ready
wait_deadline(r) ==
    /\ cpc[r] \in {"body", "wait"}
    /\ timeout[r] # None
    /\ cpc[r] = "wait" => sinkVal[r] = None /\ ~SinkCanceled(r)
    /\ cpc' = [cpc EXCEPT ![r] = "expired"]
    /\ UNCHANGED <<newVars, hpc, handleVars, queue, timeout, outcome,
                   sinkVars, taskVars>>

\* wait::timeout returns Err(Waited::TimedOut(..)): the wait is abandoned
wait_abandon(r) ==
    /\ cpc[r] = "expired"
    /\ execute_return(r, <<"Err", <<"TimedOut", "TimedOut">>>>)
    /\ UNCHANGED <<newVars, hpc, tx, thread, clients, dpc, queue, writes,
                   taskVars>>

----------------------------------------------------------------------------
\* The runtime thread: the dispatch loop and the forward tasks

\* Mutant: the loop gives each task a clone of the handle.
thread_recv_takes_ref ==
    /\ hpc = "loop"
    /\ queue # <<>>
    /\ eng' = [eng EXCEPT ![Head(queue)] = "pending"]
    /\ task' = [task EXCEPT ![Head(queue)] = "running"]
    /\ queue' = Tail(queue)
    /\ responses' = responses + 1
    /\ UNCHANGED <<newVars, hpc, tx, thread, clients, dpc, callVars, sinkVars,
                   branches>>

\* Mutant: the loop awaits the task it spawned before it receives again.
thread_recv_serial ==
    /\ hpc = "loop"
    /\ queue # <<>>
    /\ \A r \in Reqs : task[r] # "running"
    /\ eng' = [eng EXCEPT ![Head(queue)] = "pending"]
    /\ task' = [task EXCEPT ![Head(queue)] = "running"]
    /\ queue' = Tail(queue)
    /\ UNCHANGED <<newVars, hpc, handleVars, callVars, sinkVars, branches>>

\* Mutant: the pair sent last is received first.
thread_recv_lifo ==
    /\ hpc = "loop"
    /\ queue # <<>>
    /\ eng' = [eng EXCEPT ![queue[Len(queue)]] = "pending"]
    /\ task' = [task EXCEPT ![queue[Len(queue)]] = "running"]
    /\ queue' = SubSeq(queue, 1, Len(queue) - 1)
    /\ UNCHANGED <<newVars, hpc, handleVars, callVars, sinkVars, branches>>

\* Mutant: the pair is dispatched and left in the channel.
thread_recv_peek ==
    /\ hpc = "loop"
    /\ queue # <<>>
    /\ eng' = [eng EXCEPT ![Head(queue)] = "pending"]
    /\ task' = [task EXCEPT ![Head(queue)] = "running"]
    /\ queue' = queue
    /\ UNCHANGED <<newVars, hpc, handleVars, callVars, sinkVars, branches>>

\* while let Some((req, req_tx)) = rx.recv().await { tokio::spawn(forward(..)) }
thread_recv ==
    /\ hpc = "loop"
    /\ queue # <<>>
    /\ eng' = [eng EXCEPT ![Head(queue)] = "pending"]
    /\ task' = [task EXCEPT ![Head(queue)] = "running"]
    /\ queue' = Tail(queue)
    /\ UNCHANGED <<newVars, hpc, handleVars, callVars, sinkVars, branches>>

\* What fut.as_mut().poll(cx) may return.
EnginePolls == {<<"Pending">>} \cup {<<"Ready", v>> : v \in EngineResults}

\* Mutant: tx.poll_closed is polled first, the engine future after it.
forward_select_closed_first(p, closed) ==
    IF closed
      THEN <<"Ready", None>>
      ELSE IF p[1] = "Ready" THEN <<"Ready", Some(p[2])>> ELSE <<"Pending">>

\* Mutant: tx.poll_closed is not polled, only the engine future is.
forward_select_engine_only(p, closed) ==
    IF p[1] = "Ready" THEN <<"Ready", Some(p[2])>> ELSE <<"Pending">>

\* Mutant: the ready! around tx.poll_closed is missing, a pending engine
\* future cancels the task.
forward_select_eager(p, closed) ==
    IF p[1] = "Ready" THEN <<"Ready", Some(p[2])>> ELSE <<"Ready", None>>

\* The poll_fn closure of forward: the engine future first, then
\* tx.poll_closed.  <<"Pending">>, or <<"Ready", Option<result>>>.
forward_select(p, closed) ==
    IF p[1] = "Ready"
      THEN <<"Ready", Some(p[2])>>
      ELSE IF closed THEN <<"Ready", None>> ELSE <<"Pending">>

\* Mutant: the select is wrapped in a loop, the task polls again.
forward_finish_loop(branch) == "running"

\* Mutant: after the send the task goes on to wait for the cancellation.
forward_finish_repoll(branch) == IF branch = "deliver" THEN "running" ELSE "abandoned"

\* forward returns after its branch: the task is finished.
forward_finish(branch) == IF branch = "deliver" THEN "delivered" ELSE "abandoned"

Log(log, b) == IF Len(log) < 2 THEN Append(log, b) ELSE log

\* One poll of a forward task that completes its poll_fn.
forward(r, p) ==
    /\ hpc = "loop"
    /\ task[r] = "running"
    /\ forward_select(p, rxClosed[r]) # <<"Pending">>
    /\ LET res == forward_select(p, rxClosed[r])[2] IN
         IF res # None
           THEN \* let _ = tx.send(res)
                /\ IF rxClosed[r]
                     THEN UNCHANGED <<sinkVal, writes>>
                     ELSE /\ sinkVal' = [sinkVal EXCEPT ![r] = res]
                          /\ writes' = [writes EXCEPT ![r] = IF @ < 2 THEN @ + 1 ELSE @]
                /\ eng' = [eng EXCEPT ![r] = "resolved"]
                /\ task' = [task EXCEPT ![r] = forward_finish("deliver")]
                /\ branches' = [branches EXCEPT ![r] = Log(@, "deliver")]
           ELSE \* request is canceled
                /\ UNCHANGED <<sinkVal, writes>>
                /\ eng' = [eng EXCEPT ![r] = "dropped"]
                /\ task' = [task EXCEPT ![r] = forward_finish("abandon")]
                /\ branches' = [branches EXCEPT ![r] = Log(@, "abandon")]
    /\ UNCHANGED <<newVars, hpc, handleVars, queue, callVars, rxClosed>>

\* Mutant: the loop ends as soon as the queue is empty (try_recv).
recv_end_empty == queue = <<>>

\* Mutant: the loop also ends once a task has found its one-shot closed.
recv_end_after_abandon ==
    \/ ~tx /\ queue = <<>>
    \/ \E r \in Reqs : task[r] = "abandoned"

\* rx.recv() returns None: every sender is dropped and the queue is empty.
recv_end == ~tx /\ queue = <<>>

\* The while-let loop ends, the block_on future completes.
thread_loop_end ==
    /\ hpc = "loop"
    /\ recv_end
    /\ hpc' = "teardown"
    /\ UNCHANGED <<newVars, handleVars, queue, callVars, sinkVars, taskVars>>

\* Mutant: the thread function returns only once no task is pending.
thread_finish_waits ==
    /\ hpc = "teardown"
    /\ \A r \in Reqs : task[r] # "running"
    /\ hpc' = "finished"
    /\ UNCHANGED <<newVars, handleVars, queue, callVars, sinkVars, taskVars>>

\* drop(rt) drops the tasks still pending; the thread function returns.
thread_finish ==
    /\ hpc = "teardown"
    /\ hpc' = "finished"
    /\ task' = [r \in Reqs |-> IF task[r] = "running" THEN "discarded" ELSE task[r]]
    /\ eng' = [r \in Reqs |-> IF task[r] = "running" THEN "dropped" ELSE eng[r]]
    /\ UNCHANGED <<newVars, handleVars, queue, callVars, sinkVars, branches>>

----------------------------------------------------------------------------
Next ==
    \/ \E ok \in BOOLEAN : new_spawn(ok)
    \/ \E ok \in BOOLEAN : thread_rt_build(ok)
    \/ \E ok \in BOOLEAN : thread_client_build(ok)
    \/ new_await
    \/ client_clone
    \/ client_drop
    \/ response_drop
    \/ drop_join
    \/ \E r \in Reqs, t \in ReqTimeouts, b \in BOOLEAN : execute_request(r, t, b)
    \/ \E r \in Reqs, ok \in BOOLEAN : body_send(r, ok)
    \/ \E r \in Reqs : wait_ready(r)
    \/ \E r \in Reqs : wait_deadline(r)
    \/ \E r \in Reqs : wait_abandon(r)
    \/ thread_recv
    \/ \E r \in Reqs, p \in EnginePolls : forward(r, p)
    \/ thread_loop_end
    \/ thread_finish

Spec == Init /\ [][Next]_vars

----------------------------------------------------------------------------
\* Panics on the runtime thread.  Next has none: there the engine and the
\* runtime meet their contracts.

\* The thread function unwinds (the runtime builder, builder.build() or
\* client.execute(req) panicked): its locals are dropped, spawn_tx if it was
\* not used, the mpsc receiver with the pairs still queued, and the runtime
\* with its tasks.
thread_panic ==
    /\ hpc \in {"rt_build", "client_build", "loop"}
    /\ hpc' = "panicked"
    /\ spawnSig' = IF spawnSig = None THEN Canceled ELSE spawnSig
    /\ queue' = <<>>
    /\ task' = [r \in Reqs |->
                  IF task[r] = "running" THEN "discarded"
                  ELSE IF \E i \in 1..Len(queue) : queue[i] = r THEN "lost"
                  ELSE task[r]]
    /\ eng' = [r \in Reqs |-> IF task[r] = "running" THEN "dropped" ELSE eng[r]]
    /\ UNCHANGED <<npc, clientTimeout, handleVars, callVars, sinkVars, branches>>

\* The engine future panics when a task spawned by tokio::spawn polls it:
\* the runtime catches the panic at the task boundary and drops the task,
\* and its one-shot sender with it; the thread goes on with the loop.
task_panic(r) ==
    /\ hpc = "loop"
    /\ task[r] = "running"
    /\ task' = [task EXCEPT ![r] = "panicked"]
    /\ eng' = [eng EXCEPT ![r] = "dropped"]
    /\ UNCHANGED <<newVars, hpc, handleVars, queue, callVars, sinkVars, branches>>

FaultNext ==
    \/ Next
    \/ thread_panic
    \/ \E r \in Reqs : task_panic(r)
    \/ \E r \in Reqs : wait_canceled(r)

\* The checks with panics take a client built with timeout(None): a call then
\* has a deadline exactly when its request overrides the timeout.
FaultInit == Init /\ clientTimeout = None

FaultSpec == FaultInit /\ [][FaultNext]_vars

----------------------------------------------------------------------------
\* The ClientBuilder, from its construction to build().  Its field `inner`
\* is the engine's builder and is left out; npc is "builder" as long as
\* timeout() was not called and "configured" afterwards.

\* ClientBuilder::new (and Client::builder, ClientBuilder::default)
ClientBuilder_new == [timeout |-> Timeout_default]

\* impl From<async_impl::ClientBuilder> for ClientBuilder
ClientBuilder_from == [timeout |-> Timeout_default]

\* Mutant: timeout(None) is ignored, as if None meant "no change".
ClientBuilder_timeout_some_only(b, t) ==
    IF t = None THEN b ELSE [b EXCEPT !.timeout = t]

\* ClientBuilder::timeout: self.timeout = Timeout(timeout.into())
ClientBuilder_timeout(b, t) == [b EXCEPT !.timeout = t]

\* The arguments of ClientBuilder::timeout.
BuilderTimeouts == {None, Some(50)}

BuilderInit ==
    /\ npc = "builder"
    /\ clientTimeout \in {ClientBuilder_new.timeout, ClientBuilder_from.timeout}
    /\ spawnSig = None
    /\ hpc = "unspawned"
    /\ tx = TRUE
    /\ thread = FALSE
    /\ clients = 0
    /\ responses = 0
    /\ dpc = "none"
    /\ queue = <<>>
    /\ cpc = [r \in Reqs |-> "idle"]
    /\ timeout = [r \in Reqs |-> None]
    /\ sinkVal = [r \in Reqs |-> None]
    /\ rxClosed = [r \in Reqs |-> FALSE]
    /\ eng = [r \in Reqs |-> "none"]
    /\ task = [r \in Reqs |-> "none"]
    /\ outcome = [r \in Reqs |-> None]
    /\ writes = [r \in Reqs |-> 0]
    /\ branches = [r \in Reqs |-> <<>>]

builder_timeout(t) ==
    /\ npc \in {"builder", "configured"}
    /\ npc' = "configured"
    /\ clientTimeout' = ClientBuilder_timeout([timeout |-> clientTimeout], t).timeout
    /\ UNCHANGED <<spawnSig, hpc, handleVars, queue, callVars, sinkVars, taskVars>>

\* ClientBuilder::build calls ClientHandle::new(self), which moves
\* builder.timeout into the handle and creates the two channels.
builder_build ==
    /\ npc \in {"builder", "configured"}
    /\ npc' = "new"
    /\ UNCHANGED <<clientTimeout, spawnSig, hpc, handleVars, queue, callVars,
                   sinkVars, taskVars>>

BuilderNext ==
    \/ \E t \in BuilderTimeouts : builder_timeout(t)
    \/ builder_build
    \/ Next

BuilderSpec == BuilderInit /\ [][BuilderNext]_vars

----------------------------------------------------------------------------
\* Scheduling.  Every thread that can take a step eventually takes one; the
\* current-thread runtime polls the block_on future and every woken task; a
\* finite deadline eventually elapses.  The engine is only assumed to make
\* progress for the calls that wait without a deadline; body streaming feeds
\* the engine call and ends when that call does.  Callers are not assumed to
\* issue calls, clone or drop anything.
NoDeadline(r) == cpc[r] \in {"body", "wait"} /\ timeout[r] = None

\* The steps of the runtime thread's own code, one after the other.
ThreadBody ==
    \/ \E ok \in BOOLEAN : thread_rt_build(ok)
    \/ \E ok \in BOOLEAN : thread_client_build(ok)
    \/ thread_recv
    \/ thread_loop_end
    \/ thread_finish

\* A caller thread parked in wait::timeout, woken by the value or the deadline.
CallerWakes(r) == wait_ready(r) \/ wait_abandon(r)

Fairness ==
    /\ WF_vars(ThreadBody)
    /\ WF_vars(new_await)
    /\ WF_vars(drop_join)
    /\ \A r \in Reqs :
         /\ WF_vars(CallerWakes(r))
         /\ WF_vars(wait_deadline(r))
         /\ WF_vars(forward(r, <<"Pending">>))
         /\ WF_vars(NoDeadline(r) /\ \E v \in EngineResults : forward(r, <<"Ready", v>>))
         /\ WF_vars(NoDeadline(r) /\ \E ok \in BOOLEAN : body_send(r, ok))

\* The liveness checks take a client built with timeout(None): a call then
\* has a finite deadline exactly when its request overrides the timeout.
LiveInit == Init /\ clientTimeout = None

LiveSpec == LiveInit /\ [][Next]_vars /\ Fairness

----------------------------------------------------------------------------
\* Vocabulary of the properties

\* The call is inside execute_request.
Running(r) == cpc[r] \in {"body", "wait", "expired"}

\* The call is inside wait::timeout and its deadline has not elapsed.
Waiting(r) == cpc[r] \in {"body", "wait"}

Returned(r) == outcome[r] # None

IsSuccess(o) == o[1] = "Ok"
IsEngineError(o) == o[1] = "Err" /\ o[2].source = "engine"
IsTimeoutError(o) == o[1] = "Err" /\ o[2].kind = "Request" /\ o[2].source = "TimedOut"
IsBodyError(o) == o[1] = "Err" /\ o[2].source = "io"

\* What the caller of call r must get for the engine result v.
Expected(r, v, to) ==
    IF v = <<"Ok", "response">>
      THEN <<"Ok", [res |-> "response", timeout |-> to, keepalive |-> TRUE]>>
      ELSE <<"Err", [kind |-> "Request", source |-> "engine", url |-> <<r>>]>>

\* A call returns at most once, and what it returned does not change.
OneOutcome ==
    [][\A r \in Reqs : /\ Returned(r) => outcome'[r] = outcome[r]
                       /\ cpc[r] = "done" => cpc'[r] = "done"
                       /\ Running(r) /\ ~Running(r)'
                            => cpc'[r] = "done" /\ Returned(r)']_vars

\* No call stays inside execute_request for ever: it leaves it, and by
\* OneOutcome it leaves it by returning.
NoHang == \A r \in Reqs : []<>(~Running(r))

----------------------------------------------------------------------------
\* C1 as stated: every call issued against one client, from whatever thread
\* and concurrently with whatever other calls, eventually returns, returns
\* once, and what it returns is a success, an engine error or a timeout
\* error (the engine resolves every call that has no deadline).
C1_Original ==
    /\ NoHang
    /\ OneOutcome
    /\ [](\A r \in Reqs : Returned(r) =>
            \/ IsSuccess(outcome[r][1])
            \/ IsEngineError(outcome[r][1])
            \/ IsTimeoutError(outcome[r][1]))

\* C1 amended: every call eventually returns, returns once, and what it
\* returns is a success, an engine error, a timeout error or, for a request
\* with a body, the error body streaming failed with.
C1_EveryCallReturnsOnce ==
    /\ NoHang
    /\ OneOutcome
    /\ [](\A r \in Reqs : Returned(r) =>
            \/ IsSuccess(outcome[r][1])
            \/ IsEngineError(outcome[r][1])
            \/ IsTimeoutError(outcome[r][1])
            \/ IsBodyError(outcome[r][1]))

\* Two calls in progress at once, each of which got its own outcome: one
\* timed out and the other returned the engine's response.
C1_Witness ==
    /\ Returned(1) /\ IsTimeoutError(outcome[1][1])
    /\ Returned(2) /\ IsSuccess(outcome[2][1])
    /\ task[1] = "running"

\* The forward task of call r has taken branch b.
Took(r, b) == \E i \in 1..Len(branches[r]) : branches[r][i] = b

----------------------------------------------------------------------------
\* C2: the one-shot of a request is written at most once, and it is never
\* both fulfilled with a value its caller received and observed closed by
\* its task.
C2_SinkWrittenAtMostOnce ==
    \A r \in Reqs :
        /\ writes[r] <= 1
        /\ ~ /\ Returned(r)
             /\ IsSuccess(outcome[r][1]) \/ IsEngineError(outcome[r][1])
             /\ Took(r, "abandon")

\* The race of the claim: the engine result was written while the caller was
\* giving up, the caller returned the timeout error.
C2_Witness ==
    \E r \in Reqs : writes[r] = 1 /\ Returned(r) /\ IsTimeoutError(outcome[r][1])

\* C3: a forward task takes at most one of the branches deliver and abandon,
\* and having taken one it is finished.
C3_OneBranchPerTask ==
    \A r \in Reqs :
        /\ Len(branches[r]) <= 1
        /\ Took(r, "deliver") => task[r] = "delivered" /\ ~Took(r, "abandon")
        /\ Took(r, "abandon") => task[r] = "abandoned" /\ ~Took(r, "deliver")

\* One task delivered and another abandoned.
C3_Witness ==
    \E r, q \in Reqs : branches[r] = <<"deliver">> /\ branches[q] = <<"abandon">>

\* C4: when the deadline of a call elapses before its wait is over (the
\* engine has not resolved the request, or its result was not yet awaited),
\* the call does not stay in the wait: it returns the timeout error, tagged
\* with the URL, and the receiver of its one-shot is closed.
C4_DeadlineFirstGivesTimeout ==
    /\ \A r \in Reqs : []<>(cpc[r] # "expired")
    /\ [][\A r \in Reqs :
            cpc[r] = "expired" /\ cpc'[r] # "expired"
                => /\ cpc'[r] = "done"
                   /\ IsTimeoutError(outcome'[r][1])
                   /\ outcome'[r][1][2].url = <<r>>
                   /\ rxClosed'[r]]_vars

\* A call returned the timeout error while its engine future is still pending.
C4_Witness ==
    \E r \in Reqs :
        /\ Returned(r) /\ IsTimeoutError(outcome[r][1])
        /\ rxClosed[r]
        /\ eng[r] = "pending"

\* C5 as stated: a call without override on a client without default has no
\* deadline, it never returns the timeout error, and it returns only with the
\* engine result that was delivered to its one-shot.
C5_Original ==
    [][\A r \in Reqs :
        /\ \A b \in BOOLEAN :
             clientTimeout = None /\ execute_request(r, None, b)
                => timeout'[r] = None /\ cpc'[r] \in {"body", "wait"}
        /\ NoDeadline(r) /\ ~(cpc'[r] \in {"body", "wait"})
             => /\ cpc'[r] = "done"
                /\ ~IsTimeoutError(outcome'[r][1])
                /\ sinkVal[r] # None
                /\ outcome'[r][1] = Expected(r, sinkVal[r][1], None)]_vars

\* C5 amended: such a call never returns the timeout error; it returns only
\* with the engine result that was delivered to its one-shot or, for a
\* request with a body, with the error body streaming failed with.
C5_NoDeadlineNoTimeout ==
    [][\A r \in Reqs :
        /\ \A b \in BOOLEAN :
             clientTimeout = None /\ execute_request(r, None, b)
                => timeout'[r] = None /\ cpc'[r] \in {"body", "wait"}
        /\ NoDeadline(r) /\ ~(cpc'[r] \in {"body", "wait"})
             => /\ cpc'[r] = "done"
                /\ ~IsTimeoutError(outcome'[r][1])
                /\ \/ /\ sinkVal[r] # None
                      /\ outcome'[r][1] = Expected(r, sinkVal[r][1], None)
                   \/ /\ cpc[r] = "body"
                      /\ IsBodyError(outcome'[r][1])]_vars

\* A client without default returned a Response that carries no timeout.
C5_Witness ==
    /\ clientTimeout = None
    /\ \E r \in Reqs :
         /\ Returned(r)
         /\ outcome[r][1] = Expected(r, <<"Ok", "response">>, None)
         /\ writes[r] = 1

\* C6: the timeout of a call is the override of its request when there is
\* one, whatever the client default, and the client default otherwise; it is
\* fixed before the wait and only a call that has one can time out.
C6_EffectiveTimeout ==
    [][\A r \in Reqs :
        /\ \A b \in BOOLEAN :
             /\ execute_request(r, <<100>>, b) => timeout'[r] = <<100>>
             /\ execute_request(r, None, b) => timeout'[r] = clientTimeout
        /\ Running(r) /\ cpc'[r] \in {"body", "wait", "expired"}
             => timeout'[r] = timeout[r]
        /\ cpc[r] # "expired" /\ cpc'[r] = "expired" => timeout[r] # None
        /\ cpc[r] = "idle" /\ cpc'[r] # "idle" => cpc'[r] \in {"body", "wait"}]_vars

\* Default 30 s, override 100 ms: the deadline that elapsed is the 100 ms one.
C6_Witness ==
    /\ clientTimeout = <<30000>>
    /\ \E r \in Reqs : cpc[r] = "expired" /\ timeout[r] = <<100>>

\* C7 as stated: when the engine result is in the one-shot of a call whose
\* deadline has not elapsed, the call returns that result: the response, or
\* the engine's error with the URL of the request attached.
C7_Original ==
    [][\A r \in Reqs :
        Waiting(r) /\ sinkVal[r] # None /\ ~(cpc'[r] \in {"body", "wait"})
            => /\ cpc'[r] = "done"
               /\ outcome'[r] = <<Expected(r, sinkVal[r][1], timeout[r])>>]_vars

\* C7 amended: the same for a call that is awaiting its one-shot, which a
\* request with a body does only once body streaming has succeeded.
C7_DeliveredResultIsReturned ==
    [][\A r \in Reqs :
        cpc[r] = "wait" /\ sinkVal[r] # None /\ cpc'[r] # "wait"
            => /\ cpc'[r] = "done"
               /\ outcome'[r] = <<Expected(r, sinkVal[r][1], timeout[r])>>]_vars

\* A call with a 100 ms deadline returned the engine's error, and another
\* the engine's response.
C7_Witness ==
    \E r, q \in Reqs :
        /\ outcome[r] = <<Expected(r, <<"Err", EngineError>>, <<100>>)>>
        /\ outcome[q] = <<Expected(q, <<"Ok", "response">>, <<100>>)>>

\* C8: the drop of the last reference drops the send-half before it joins,
\* and it returns only once the runtime thread has finished.
C8_DropClosesThenJoins ==
    /\ dpc = "closing" => ~tx /\ thread
    /\ dpc = "joined" => ~tx /\ ~thread /\ hpc = "finished"
    /\ dpc # "none" => strong_count = 0

\* The drop has returned.
C8_Witness == dpc = "joined" /\ hpc = "finished"

\* C9: the drop of the last reference returns, whatever the engine does.
C9_LastDropTerminates == (dpc = "closing") ~> (dpc = "joined")

\* The drop returned although a task was still waiting for the engine: the
\* task was discarded with the runtime.
C9_Witness == dpc = "joined" /\ \E r \in Reqs : task[r] = "discarded"

\* C10: while a Client or a Response is alive the dispatch loop is running
\* and the channel is open; the loop has ended only if the send-half is
\* dropped and the queue is empty.
C10_AliveWhileReferenced ==
    /\ strong_count >= 1 => hpc = "loop" /\ tx /\ receiver_alive
    /\ hpc = "teardown" \/ (hpc = "finished" /\ spawnSig = <<"Ok">>)
         => ~tx /\ queue = <<>> /\ strong_count = 0

\* Every Client is gone, a Response alone keeps the loop running.
C10_Witness == clients = 0 /\ responses >= 1 /\ hpc = "loop" /\ tx

----------------------------------------------------------------------------
\* C11: a call that returns a Response adds one reference to the handle,
\* held by that Response; with every Client dropped and a Response alive the
\* loop runs and the send-half is in place, and the send-half is dropped and
\* the loop left only when the last Response is dropped.
C11_ResponseKeepsThreadAlive ==
    /\ [](clients = 0 /\ responses >= 1 => hpc = "loop" /\ tx /\ dpc = "none")
    /\ [][/\ \A r \in Reqs :
              Running(r) /\ cpc'[r] = "done" /\ IsSuccess(outcome'[r][1])
                  => /\ outcome'[r][1][2].keepalive
                     /\ responses' = responses + 1
          /\ npc = "ready" /\ clients = 0 /\ tx /\ ~tx'
               => responses = 1 /\ responses' = 0
          /\ clients = 0 /\ hpc = "loop" /\ hpc' # "loop"
               => responses = 0 /\ ~tx]_vars

\* The Client and its clone are dropped, the Response of a call whose task
\* delivered is the only reference left, and the loop is running.
C11_Witness ==
    /\ clients = 0 /\ responses = 1 /\ strong_count = 1
    /\ hpc = "loop" /\ dpc = "none"
    /\ \E r \in Reqs : Returned(r) /\ IsSuccess(outcome[r][1]) /\ task[r] = "delivered"

----------------------------------------------------------------------------
\* C12: when the thread cannot be spawned, or the runtime or the engine
\* client cannot be built, ClientHandle::new returns the error: there is no
\* handle and no send-half, and the thread, if there is one, has returned
\* without entering the loop and never enters it.
C12_FailedConstructionReturnsError ==
    /\ [](npc = "err"
            => /\ strong_count = 0 /\ ~thread /\ ~tx
               /\ hpc \in {"unspawned", "finished"}
               /\ hpc = "finished" => spawnSig = <<"Err">>)
    /\ [](spawnSig = <<"Err">>
            => /\ hpc = "finished"
               /\ npc \in {"await", "err"}
               /\ \A r \in Reqs : task[r] = "none" /\ cpc[r] = "idle")
    /\ [][/\ npc = "new" /\ npc' # "new" /\ hpc' = "unspawned" => npc' = "err"
          /\ hpc \in {"rt_build", "client_build"} /\ hpc' = "finished"
               => spawnSig' = <<"Err">>
          /\ npc = "await" /\ npc' # "await" /\ spawnSig = <<"Err">> => npc' = "err"
          /\ npc = "err" \/ spawnSig = <<"Err">>
               => npc' # "ready" /\ hpc' # "loop"]_vars

\* The engine client could not be built: the thread has returned and the
\* constructor has returned the error.
C12_Witness == npc = "err" /\ hpc = "finished" /\ spawnSig = <<"Err">> /\ ~tx

----------------------------------------------------------------------------
\* C13: ClientHandle::new returns only once the thread has sent the startup
\* signal; it returns the handle only on Ok(()), which the thread sends only
\* after the runtime and the engine client were built, and the thread is then
\* in the loop; the loop is entered with the sending of Ok(()) and no request
\* is received before it.
C13_ReturnsAfterStartupSignal ==
    /\ [](npc = "ready" => spawnSig = <<"Ok">>)
    /\ [](npc = "err" /\ hpc # "unspawned" => spawnSig = <<"Err">>)
    /\ [](hpc = "loop" \/ queue # <<>> \/ (\E r \in Reqs : task[r] # "none")
            => spawnSig = <<"Ok">>)
    /\ [][/\ npc = "await" /\ npc' # "await" => spawnSig # None
          /\ npc # "ready" /\ npc' = "ready"
               => spawnSig = <<"Ok">> /\ hpc = "loop" /\ tx'
          /\ spawnSig # <<"Ok">> /\ spawnSig' = <<"Ok">>
               => hpc = "client_build" /\ hpc' = "loop" /\ npc = "await"
          /\ spawnSig # None => spawnSig' = spawnSig]_vars

\* The constructor has returned the handle and the loop has received a
\* request of the new client.
C13_Witness ==
    /\ npc = "ready" /\ spawnSig = <<"Ok">> /\ hpc = "loop"
    /\ \E r \in Reqs : task[r] = "running" /\ cpc[r] = "wait"

----------------------------------------------------------------------------
\* The call has unwound out of execute_request.
Panicked(r) == cpc[r] = "panicked"

\* C14: when spawn_tx is dropped with nothing sent (the thread unwound before
\* it reported), ClientHandle::new does not return: it panics, and there is
\* neither a handle nor an error value.
C14_CanceledStartupPanics ==
    /\ spawnSig = Canceled
         => /\ npc \in {"await", "panic"}
            /\ hpc = "panicked"
            /\ strong_count = 0 /\ ~thread
    /\ npc = "panic" => spawnSig = Canceled /\ ~tx
    /\ npc = "err" => spawnSig # Canceled

\* builder.build() panicked on the thread and the constructor panicked.
C14_Witness == npc = "panic" /\ hpc = "panicked" /\ spawnSig = Canceled

\* C15: a call that awaits its one-shot when the sender is dropped with
\* nothing sent leaves the wait only by unwinding: it returns nothing, neither
\* then nor later, and only such a call, or one whose send failed, unwinds.
C15_CanceledSinkPanics ==
    [][\A r \in Reqs :
        /\ cpc[r] = "wait" /\ SinkCanceled(r) /\ cpc'[r] # "wait"
             => Panicked(r)' /\ outcome'[r] = None
        /\ Panicked(r) => Panicked(r)' /\ outcome'[r] = None
        /\ Running(r) /\ Panicked(r)' => cpc[r] = "wait" /\ SinkCanceled(r)]_vars

\* A caller has panicked out of its wait: the runtime thread had unwound
\* with the task of the call.
C15_Witness ==
    \E r \in Reqs :
        Panicked(r) /\ task[r] = "discarded" /\ hpc = "panicked" /\ outcome[r] = None

----------------------------------------------------------------------------
\* C16 as stated: the one-shot of a call that is still inside its wait has
\* lost its sender with nothing sent only if the runtime thread has unwound;
\* while the thread runs its loop, a task goes away without a write only
\* when the receiver of its one-shot was already closed.
C16_CanceledOnlyWhenHostDied ==
    /\ [](\A r \in Reqs : Waiting(r) /\ SinkCanceled(r) => hpc = "panicked")
    /\ [][\A r \in Reqs :
            /\ hpc = "loop" /\ hpc' = "loop"
            /\ task[r] = "running" /\ task'[r] # "running"
            /\ writes'[r] = writes[r]
            => rxClosed[r]]_vars

----------------------------------------------------------------------------
\* C17: the send of execute_request can always be made, whatever the length
\* of the queue; it puts the pair at the end of the queue when the receiver
\* exists and fails only when the runtime thread has dropped it, and the
\* call then unwinds without an outcome.
C17_SendNeverBlocksFailurePanics ==
    /\ [](\A r \in Reqs :
            /\ npc = "ready" /\ clients >= 1
            /\ cpc[r] = "idle" /\ (\A q \in Reqs : q < r => cpc[q] # "idle")
            => ENABLED execute_request(r, None, FALSE))
    /\ [][\A r \in Reqs :
            cpc[r] = "idle" /\ cpc'[r] # "idle"
                => IF receiver_alive
                     THEN /\ cpc'[r] \in {"body", "wait"}
                          /\ queue' = Append(queue, r)
                     ELSE /\ hpc \in {"panicked", "teardown", "finished"}
                          /\ Panicked(r)' /\ outcome'[r] = None
                          /\ queue' = queue]_vars

\* The runtime thread has unwound and a later call panicked at its send.
C17_Witness ==
    \E r \in Reqs :
        /\ Panicked(r) /\ task[r] = "none" /\ eng[r] = "none"
        /\ hpc = "panicked" /\ clients >= 1 /\ tx

----------------------------------------------------------------------------
\* C18: a call that returns the timeout error, and the task that then finds
\* its one-shot closed, change nothing but their own call: the thread stays
\* in the loop, the queue, the other tasks and the other one-shots are as
\* they were; as long as the handle is referenced after a timeout the loop
\* runs and takes requests.
C18_TimeoutLeavesLoopRunning ==
    /\ []((\E q \in Reqs : Returned(q) /\ IsTimeoutError(outcome[q][1]))
             /\ strong_count >= 1
            => hpc = "loop" /\ tx /\ receiver_alive)
    /\ [][\A q \in Reqs :
            /\ cpc[q] = "expired" /\ cpc'[q] = "done"
                 => /\ hpc' = hpc /\ tx' = tx /\ queue' = queue
                    /\ task' = task /\ eng' = eng
                    /\ \A r \in Reqs \ {q} :
                         /\ cpc'[r] = cpc[r] /\ outcome'[r] = outcome[r]
                         /\ sinkVal'[r] = sinkVal[r] /\ rxClosed'[r] = rxClosed[r]
            /\ task[q] = "running" /\ task'[q] = "abandoned"
                 => /\ hpc' = "loop" /\ queue' = queue /\ sinkVal' = sinkVal
                    /\ \A r \in Reqs \ {q} :
                         task'[r] = task[r] /\ eng'[r] = eng[r]]_vars

\* The first call timed out and its task was cancelled; the second call got
\* the engine's response from the same loop, which is still running.
C18_Witness ==
    /\ Returned(1) /\ IsTimeoutError(outcome[1][1]) /\ task[1] = "abandoned"
    /\ Returned(2) /\ IsSuccess(outcome[2][1]) /\ task[2] = "delivered"
    /\ hpc = "loop"

----------------------------------------------------------------------------
\* The pair of call r is in the channel.
InQueue(r) == \E i \in 1..Len(queue) : queue[i] = r

\* C19: a pair that was sent is either in the channel, once, or has been
\* taken out of it by the loop, which spawned one task for it at that step
\* and never again; the loop ends with the channel empty, so the pairs still
\* queued when the last send-half is dropped are dispatched as well.
C19_EveryPairDispatchedOnce ==
    /\ [](\A r \in Reqs :
            /\ cpc[r] = "idle" => ~InQueue(r) /\ task[r] = "none"
            /\ cpc[r] # "idle" => (InQueue(r) <=> task[r] = "none")
            /\ Cardinality({i \in 1..Len(queue) : queue[i] = r}) <= 1)
    /\ [](hpc \in {"teardown", "finished"} => queue = <<>>)
    /\ [][\A r \in Reqs :
            /\ InQueue(r) /\ ~InQueue(r)'
                 => /\ hpc = "loop" /\ Head(queue) = r /\ queue' = Tail(queue)
                    /\ task[r] = "none" /\ task'[r] = "running"
                    /\ eng'[r] = "pending"
            /\ task[r] # "none"
                 => /\ task'[r] # "none" /\ ~InQueue(r)'
                    /\ eng[r] # "pending" => eng'[r] # "pending"]_vars

\* The last send-half is dropped and the loop goes on dispatching: the first
\* pair has its task, the second is still in the channel.
C19_Witness ==
    /\ ~tx /\ dpc = "closing" /\ hpc = "loop"
    /\ task[1] = "running" /\ queue = <<2>>

----------------------------------------------------------------------------
\* The kinds of the errors the engine reports for a request.
EngineErrorKinds == {v[2].kind : v \in {w \in EngineResults : w[1] = "Err"}}

\* C20 as stated: the error a call returns when its deadline has elapsed
\* carries the URL of the request, and its kind is not the kind of an error
\* the engine reports for a request.
C20_Original ==
    [][\A r \in Reqs :
        cpc[r] = "expired" /\ cpc'[r] = "done"
            => /\ outcome'[r][1][1] = "Err"
               /\ outcome'[r][1][2].url = <<r>>
               /\ outcome'[r][1][2].kind \notin EngineErrorKinds]_vars

\* C20 amended: the error a call returns when its deadline has elapsed is
\* crate::error::request(TimedOut) with the URL of the request: it has the
\* kind of a request error, and it differs from the error the engine
\* reported, which the call returns with the URL and its own cause, by the
\* cause.
C20_TimeoutDistinctByCause ==
    [][\A r \in Reqs :
        /\ cpc[r] = "expired" /\ cpc'[r] = "done"
             => /\ outcome'[r][1] = <<"Err", [kind |-> "Request",
                                              source |-> "TimedOut",
                                              url |-> <<r>>]>>
                /\ outcome'[r][1][2].kind \in EngineErrorKinds
                /\ ~IsEngineError(outcome'[r][1])
        /\ cpc[r] = "wait" /\ sinkVal[r] = <<(<<"Err", EngineError>>)>> /\ cpc'[r] = "done"
             => /\ IsEngineError(outcome'[r][1])
                /\ ~IsTimeoutError(outcome'[r][1])
                /\ outcome'[r][1][2].source # "TimedOut"
                /\ outcome'[r][1][2].url = <<r>>]_vars

\* One call returned the timeout error and another the engine's error: the
\* same kind and two causes.
C20_Witness ==
    \E r, q \in Reqs :
        /\ Returned(r) /\ IsTimeoutError(outcome[r][1])
        /\ Returned(q) /\ IsEngineError(outcome[q][1])
        /\ outcome[r][1][2].kind = outcome[q][1][2].kind
        /\ outcome[r][1][2].source # outcome[q][1][2].source

----------------------------------------------------------------------------
\* C21: a call whose request has a body starts with body streaming and
\* awaits its one-shot only after streaming succeeded; while it streams it
\* does not return what is in the one-shot; the timeout fixed before the
\* wait is the one of both steps, it is not set again between them and its
\* deadline can elapse in either.
C21_BodyThenSinkUnderOneDeadline ==
    /\ [](\A r \in Reqs :
            cpc[r] = "body" /\ timeout[r] # None => ENABLED wait_deadline(r))
    /\ [][\A r \in Reqs :
            /\ \A t \in ReqTimeouts :
                 execute_request(r, t, TRUE) /\ receiver_alive => cpc'[r] = "body"
            /\ cpc[r] = "body" /\ cpc'[r] # "body"
                 => /\ cpc'[r] \in {"wait", "expired", "done"}
                    /\ cpc'[r] \in {"wait", "expired"} => timeout'[r] = timeout[r]
                    /\ cpc'[r] = "expired" => timeout[r] # None
                    /\ cpc'[r] = "done" => IsBodyError(outcome'[r][1])
            /\ cpc[r] # "wait" /\ cpc'[r] = "wait" => cpc[r] \in {"idle", "body"}]_vars

\* The engine's result is in the one-shot of a call that is still streaming
\* its body under a deadline.
C21_Witness ==
    \E r \in Reqs : cpc[r] = "body" /\ sinkVal[r] # None /\ timeout[r] # None

----------------------------------------------------------------------------
\* C22: the runtime thread is started once, by ClientHandle::new, and never
\* again: a built client has that thread, in its loop, for as long as the
\* handle is referenced, and the steps that add a Client or a Response
\* leave the thread and the JoinHandle alone.
C22_OneThreadPerClient ==
    /\ [](npc = "ready" => hpc \in {"loop", "teardown", "finished"})
    /\ [](strong_count >= 1 => thread /\ hpc = "loop")
    /\ [][/\ hpc = "unspawned" /\ hpc' # "unspawned"
               => npc = "new" /\ npc' = "await" /\ hpc' = "rt_build"
          /\ hpc # "unspawned" => hpc' # "unspawned"
          /\ hpc # "rt_build" /\ hpc # "unspawned" => hpc' # "rt_build"
          /\ clients' > clients \/ responses' > responses
               => /\ hpc' = hpc /\ tx' = tx
                  /\ npc = "ready" => thread' = thread]_vars

\* Two Clients and a Response share the handle and its one thread.
C22_Witness ==
    clients = 2 /\ responses >= 1 /\ thread /\ hpc = "loop" /\ dpc = "none"

----------------------------------------------------------------------------
\* C23: calls are sent in the order of their numbers; the channel holds the
\* pairs in that order and a pair has its task only if every pair sent
\* before it has one.  (The tasks finish in any order: the witness.)
C23_DispatchInSendOrder ==
    /\ \A i, j \in 1..Len(queue) : i < j => queue[i] < queue[j]
    /\ \A q, r \in Reqs :
         q < r /\ task[r] # "none" => task[q] # "none" /\ ~InQueue(q)

\* Both pairs were dispatched, the first before the second, and the task of
\* the second has delivered while the task of the first is still running.
C23_Witness ==
    /\ task[1] = "running" /\ eng[1] = "pending"
    /\ task[2] = "delivered" /\ writes[2] = 1

----------------------------------------------------------------------------
\* C24: whatever the tasks already spawned are doing, the loop can receive
\* the next pair as soon as there is one, and a running task can deliver
\* the engine's result to an open one-shot: a pending engine call holds up
\* neither the dispatch nor the completion of another request.
C24_LoopDoesNotWaitForTasks ==
    /\ hpc = "loop" /\ queue # <<>> => ENABLED thread_recv
    /\ \A r \in Reqs :
         hpc = "loop" /\ task[r] = "running"
             => \A v \in EngineResults : ENABLED forward(r, <<"Ready", v>>)

\* The first call, without a deadline, is still waiting for an engine call
\* that is pending; the second, sent after it, has returned its response.
C24_Witness ==
    /\ cpc[1] = "wait" /\ timeout[1] = None
    /\ task[1] = "running" /\ eng[1] = "pending"
    /\ Returned(2) /\ IsSuccess(outcome[2][1])

----------------------------------------------------------------------------
\* C25: a builder, from ClientBuilder::new or converted from the engine's
\* builder, has the timeout of 30 s until timeout() is called, and a client
\* built from it then has that timeout; timeout(t) sets the timeout to t,
\* timeout(None) to none; the handle keeps what the builder had, and a call
\* without override takes it.
C25_DefaultTimeoutIs30s ==
    /\ [](npc = "builder" => clientTimeout = <<30000>>)
    /\ [][/\ npc = "builder" /\ npc' = "new" => clientTimeout' = <<30000>>
          /\ \A t \in BuilderTimeouts : builder_timeout(t) => clientTimeout' = t
          /\ builder_timeout(None) => clientTimeout' = None
          /\ npc \notin {"builder", "configured"} => clientTimeout' = clientTimeout
          /\ npc' = "new" => clientTimeout' = clientTimeout
          /\ \A r \in Reqs, b \in BOOLEAN :
               execute_request(r, None, b) /\ receiver_alive
                   => timeout'[r] = clientTimeout]_vars

\* A client with the 30 s its builder started with: a call without override
\* waits under that timeout.
C25_Witness ==
    /\ npc = "ready" /\ clientTimeout = <<30000>>
    /\ \E r \in Reqs : cpc[r] = "wait" /\ timeout[r] = <<30000>>

----------------------------------------------------------------------------
\* C26: a task whose one-shot was closed by the caller does not stay
\* running, whether or not the engine ever resolves its call; when it goes
\* it has written nothing to the closed one-shot and the engine future is
\* gone with it.
C26_ClosedSinkEndsTask ==
    /\ \A r \in Reqs : []<>(~(rxClosed[r] /\ task[r] = "running"))
    /\ [][\A r \in Reqs :
            rxClosed[r] /\ task[r] = "running" /\ task'[r] # "running"
                => /\ writes'[r] = writes[r] /\ sinkVal'[r] = sinkVal[r]
                   /\ task'[r] \in {"abandoned", "delivered", "discarded"}
                   /\ eng'[r] \in {"dropped", "resolved"}
                   /\ eng[r] = "pending" /\ task'[r] = "abandoned"
                        => eng'[r] = "dropped"]_vars

\* The caller timed out, the task found the one-shot closed while the engine
\* call was pending and ended; the thread is in its loop.
C26_Witness ==
    \E r \in Reqs :
        /\ Returned(r) /\ IsTimeoutError(outcome[r][1])
        /\ task[r] = "abandoned" /\ eng[r] = "dropped" /\ writes[r] = 0
        /\ hpc = "loop"

----------------------------------------------------------------------------
\* C27: a poll in which the engine future is ready takes the deliver branch
\* even when the one-shot is already closed: the send then fails and is
\* ignored, nothing is written, the task is finished, and the thread, the
\* other tasks and the callers are as they were.
C27_EnginePolledBeforeClosure ==
    /\ [](\A v \in EngineResults, closed \in BOOLEAN :
            forward_select(<<"Ready", v>>, closed) = <<"Ready", <<v>>>>)
    /\ [][\A r \in Reqs :
            rxClosed[r] /\ (\E v \in EngineResults : forward(r, <<"Ready", v>>))
                => /\ task'[r] = "delivered" /\ branches'[r] = <<"deliver">>
                   /\ eng'[r] = "resolved"
                   /\ writes' = writes /\ sinkVal' = sinkVal
                   /\ hpc' = "loop" /\ queue' = queue
                   /\ cpc' = cpc /\ outcome' = outcome
                   /\ \A q \in Reqs \ {r} : task'[q] = task[q]]_vars

\* The engine's result came for a one-shot that was closed: the task took
\* the deliver branch, nothing was written, the loop runs.
C27_Witness ==
    \E r \in Reqs :
        /\ rxClosed[r] /\ branches[r] = <<"deliver">> /\ task[r] = "delivered"
        /\ writes[r] = 0 /\ eng[r] = "resolved"
        /\ hpc = "loop"

----------------------------------------------------------------------------
\* C28: the pair of a request with a body is in the channel when body
\* streaming starts.  When streaming fails the call returns at once, from
\* the streaming step, the error of the streaming with the URL of the
\* request; it makes no Response, its one-shot is closed and whatever is in
\* it is dropped; a task already running for it is left as it is and, from
\* then on, can take the abandon branch and can write nothing.
C28_BodyFailureReturnsAndCancels ==
    /\ [](\A r \in Reqs :
            Returned(r) /\ IsBodyError(outcome[r][1])
                => /\ outcome[r][1] = <<"Err", with_url(BodyError, r)>>
                   /\ rxClosed[r] /\ sinkVal[r] = None
                   /\ hpc = "loop" /\ task[r] = "running"
                        => ENABLED forward(r, <<"Pending">>))
    /\ [][\A r \in Reqs :
            /\ \A t \in ReqTimeouts :
                 execute_request(r, t, TRUE) /\ receiver_alive
                     => cpc'[r] = "body" /\ queue' = Append(queue, r)
            /\ body_send(r, FALSE)
                 => /\ cpc[r] = "body" /\ cpc'[r] = "done"
                    /\ outcome'[r] = <<(<<"Err", with_url(BodyError, r)>>)>>
                    /\ rxClosed'[r] /\ sinkVal'[r] = None
                    /\ responses' = responses
                    /\ task' = task /\ eng' = eng /\ queue' = queue
            /\ Returned(r) /\ IsBodyError(outcome[r][1])
                 => writes'[r] = writes[r] /\ sinkVal'[r] = None]_vars

\* Body streaming failed after the pair was dispatched; the task then found
\* the one-shot closed and took the abandon branch.
C28_Witness ==
    \E r \in Reqs :
        /\ Returned(r) /\ IsBodyError(outcome[r][1])
        /\ branches[r] = <<"abandon">> /\ eng[r] = "dropped"

----------------------------------------------------------------------------
\* C29: once the loop has ended no task is polled any more: the thread
\* function can return whatever tasks are pending, and when it returns the
\* tasks still running are discarded with their engine futures; a discarded
\* task has taken no branch and written nothing.
C29_TeardownDiscardsPendingTasks ==
    /\ [](hpc = "teardown" => ENABLED thread_finish)
    /\ [](hpc = "finished"
            => \A r \in Reqs : task[r] # "running" /\ eng[r] # "pending")
    /\ [](\A r \in Reqs :
            task[r] = "discarded"
                => /\ hpc = "finished"
                   /\ branches[r] = <<>> /\ writes[r] = 0 /\ eng[r] = "dropped")
    /\ [][/\ hpc \in {"teardown", "finished"}
               => /\ writes' = writes /\ sinkVal' = sinkVal
                  /\ branches' = branches
          /\ \A r \in Reqs :
               hpc = "teardown" /\ hpc' = "finished" /\ task[r] = "running"
                   => task'[r] = "discarded" /\ eng'[r] = "dropped"]_vars

\* The thread function has returned and a task that was waiting for the
\* engine was discarded.
C29_Witness ==
    /\ hpc = "finished" /\ spawnSig = <<"Ok">>
    /\ \E r \in Reqs : task[r] = "discarded" /\ eng[r] = "dropped" /\ writes[r] = 0

----------------------------------------------------------------------------
\* C30: while a call is inside execute_request there is a Client, hence a
\* reference to the handle: the send-half is in place, the drop of the
\* handle has not begun and the loop is running; when the drop has begun no
\* call is in progress.
C30_NoWaitAtLastDrop ==
    /\ InFlight # {}
         => /\ clients >= 1 /\ strong_count >= 1
            /\ tx /\ dpc = "none" /\ hpc = "loop"
    /\ dpc # "none" \/ ~tx \/ hpc \in {"teardown", "finished"}
         => \A r \in Reqs : ~Running(r)

\* A call waits on the only Client left, no Response is alive: that Client
\* cannot be dropped now.
C30_Witness ==
    /\ \E r \in Reqs : cpc[r] = "wait" /\ task[r] = "running"
    /\ clients = 1 /\ responses = 0
    /\ ~ENABLED client_drop

----------------------------------------------------------------------------
\* C31: the drop of a Client or of a Response that is not the last reference
\* takes one off the strong count and nothing else: the send-half, the
\* JoinHandle, the drop of the handle, the thread, the channel, the calls,
\* the one-shots and the tasks are as they were; and a Response can be
\* dropped whenever there is one.
C31_NonLastDropChangesNothing ==
    /\ [](responses >= 1 => ENABLED response_drop)
    /\ [][(clients' < clients \/ responses' < responses) /\ strong_count > 1
            => /\ strong_count' = strong_count - 1
               /\ tx' = tx /\ thread' = thread /\ dpc' = dpc /\ dpc = "none"
               /\ hpc' = hpc /\ hpc = "loop"
               /\ queue' = queue
               /\ UNCHANGED <<callVars, sinkVars, taskVars>>]_vars

\* The Response of one call was dropped while another call is waiting on the
\* Client: the loop runs and the task of that call is running.
C31_Witness ==
    /\ responses = 0 /\ clients >= 1 /\ tx /\ hpc = "loop" /\ dpc = "none"
    /\ \E r, q \in Reqs :
         /\ Returned(r) /\ IsSuccess(outcome[r][1])
         /\ cpc[q] = "wait" /\ task[q] = "running"

----------------------------------------------------------------------------
\* C32: a call that returns an error (the timeout, the engine's error or the
\* error of body streaming) leaves the strong count, the Clients and the
\* Responses as they were; a call that returns a Response adds one to the
\* strong count, for that Response; no other step of a call changes it.
C32_OnlySuccessAddsReference ==
    [][\A r \in Reqs :
        /\ Running(r) /\ cpc'[r] = "done" /\ ~IsSuccess(outcome'[r][1])
             => /\ \/ IsTimeoutError(outcome'[r][1])
                   \/ IsEngineError(outcome'[r][1])
                   \/ IsBodyError(outcome'[r][1])
                /\ strong_count' = strong_count
                /\ clients' = clients /\ responses' = responses
        /\ Running(r) /\ cpc'[r] = "done" /\ IsSuccess(outcome'[r][1])
             => /\ strong_count' = strong_count + 1
                /\ clients' = clients /\ responses' = responses + 1
        /\ cpc'[r] # cpc[r] /\ cpc'[r] # "done"
             => clients' = clients /\ responses' = responses]_vars

\* Two calls have returned errors, one the engine's and one a timeout, and
\* the Client they ran on is still the only reference.
C32_Witness ==
    /\ clients = 1 /\ responses = 0
    /\ \E r, q \in Reqs :
         /\ Returned(r) /\ IsEngineError(outcome[r][1])
         /\ Returned(q) /\ IsTimeoutError(outcome[q][1])

----------------------------------------------------------------------------
\* C33: no step of the runtime thread, of its own code or of a task, changes
\* the number of Clients or Responses, the send-half, the JoinHandle or the
\* drop of the handle; the drop is begun by the step that drops a Client or
\* a Response, on a caller's thread, while the runtime thread is in its
\* loop, and it joins a thread other than the one it runs on.
C33_ThreadHoldsNoReference ==
    /\ [](dpc = "closing" => hpc \in {"loop", "teardown", "finished"})
    /\ [][/\ ThreadBody \/ (\E r \in Reqs, p \in EnginePolls : forward(r, p))
               => UNCHANGED <<clients, responses, tx, thread, dpc>>
          /\ dpc = "none" /\ dpc' # "none"
               => /\ client_drop \/ response_drop
                  /\ hpc = "loop" /\ hpc' = "loop"
                  /\ strong_count = 1 /\ strong_count' = 0
          /\ dpc = "closing" /\ dpc' = "joined"
               => drop_join /\ hpc = "finished" /\ hpc' = hpc]_vars

\* A caller is in the drop of the handle, at the join, and the runtime
\* thread is still in its loop with a task running.
C33_Witness ==
    /\ dpc = "closing" /\ thread /\ hpc = "loop"
    /\ \E r \in Reqs : task[r] = "running" /\ eng[r] = "pending"

----------------------------------------------------------------------------
\* C34: a call resolves its timeout when it sends, to the override of the
\* request if there is one and to the default of the client otherwise; that
\* value bounds the wait, which can meet a deadline only if it is a duration,
\* and it does not change until the call returns; the Response a call
\* returns carries exactly that value.
C34_ResponseCarriesEffectiveTimeout ==
    [][\A r \in Reqs :
         /\ cpc[r] = "idle" /\ cpc'[r] \in {"body", "wait"}
              => \E o \in ReqTimeouts :
                    timeout'[r] = IF o # None THEN o ELSE clientTimeout
         /\ cpc[r] \in {"body", "wait", "expired"} /\ ~Returned(r)'
              => timeout'[r] = timeout[r]
         /\ cpc'[r] = "expired" /\ cpc[r] # "expired" => timeout[r] # None
         /\ ~Returned(r) /\ Returned(r)' /\ IsSuccess(outcome'[r][1])
              => outcome'[r][1][2].timeout = timeout[r]]_vars

\* Two calls on a client with a default returned a Response each: one
\* carries the override of its request, the other the client's default.
C34_Witness ==
    /\ clientTimeout = Some(50)
    /\ \E r, q \in Reqs :
          /\ Returned(r) /\ IsSuccess(outcome[r][1])
          /\ outcome[r][1][2].timeout = Some(100)
          /\ Returned(q) /\ IsSuccess(outcome[q][1])
          /\ outcome[q][1][2].timeout = Some(50)

----------------------------------------------------------------------------
\* C35: while a Client or a Response exists, and so while a call runs, the
\* handle has its send-half and its JoinHandle and its drop has not begun,
\* also after a panic of the runtime thread or of a task; the drop begins
\* once, when the last of them goes, finds both in place and takes the
\* send-half; it ends once, taking the JoinHandle; it never begins again and
\* no Client or Response exists afterwards.
C35_HandleIntactUntilDrop ==
    /\ [](strong_count >= 1 \/ InFlight # {}
             => npc = "ready" /\ tx /\ thread /\ dpc = "none")
    /\ [](dpc # "none" => strong_count = 0 /\ ~tx /\ (thread <=> dpc = "closing"))
    /\ [][dpc' # dpc
            => \/ /\ dpc = "none" /\ dpc' = "closing"
                  /\ strong_count = 1 /\ strong_count' = 0
                  /\ tx /\ thread /\ ~tx' /\ thread'
               \/ /\ dpc = "closing" /\ dpc' = "joined"
                  /\ thread /\ ~thread']_vars

\* Calls were made, one of them after a panic of the runtime thread, and the
\* drop of the handle then ran to its end.
C35_Witness ==
    /\ dpc = "joined" /\ ~tx /\ ~thread /\ strong_count = 0
    /\ \E r, q \in Reqs : Returned(r) /\ cpc[q] = "panicked"

----------------------------------------------------------------------------
\* C36: when the drop of the handle is at the join and the runtime thread
\* has ended by a panic, the drop can go on, and the step it takes ends the
\* drop: the JoinHandle is taken, no call and no other part of the handle
\* is touched, and nothing is raised in the dropping thread.  A drop that
\* has ended has joined a thread that returned or one that panicked.
C36_DropIgnoresJoinResult ==
    /\ dpc = "closing" /\ hpc = "panicked"
         => ENABLED (/\ drop_join
                     /\ dpc' = "joined" /\ ~thread'
                     /\ UNCHANGED <<npc, hpc, tx, clients, responses, callVars>>)
    /\ dpc = "joined" => hpc \in {"finished", "panicked"}

\* The drop of the handle ended after the runtime thread had panicked in
\* its loop, with the JoinHandle still held before.
C36_Witness ==
    /\ dpc = "joined" /\ hpc = "panicked" /\ ~thread /\ ~tx
    /\ npc = "ready" /\ spawnSig = Some("Ok")
    /\ \A r \in Reqs : cpc[r] # "panicked"
====
